---- MODULE Spec2Model ----
(***************************************************************************)
(* Layer editors of the Sinhala text creator (src/app.py): the text-effects *)
(* editor ("Add Text Effects" tab), the social-post editor, and the two     *)
(* renderers render_all_layers and render_social_post.                      *)
(*                                                                          *)
(* Rasters are observed at a finite set of probe pixels (Probes): every     *)
(* operation the renderers apply (stamp, alpha_composite, paste, convert)   *)
(* is pointwise, so a pixel's value depends only on that pixel's history.   *)
(* A glyph stamp drawn at (sx, sy) inks the single pixel (sx, sy); font     *)
(* rasterisation itself belongs to the font library.                        *)
(* Text and colour strings are sequences of one-character strings, so       *)
(* strip(), lstrip('#'), slicing and int(.., 16) are computed, not assumed. *)
(***************************************************************************)
EXTENDS Integers, Sequences, FiniteSets, TLC

(* ------------------------------ bounds -------------------------------- *)
\* ids handed out per behaviour of the editors (next id stays <= MaxId)
MaxId == 3
\* ids handed out in the long-run specification (25 adds need ids 1..25)
MaxIdLong == 26
\* operations other than a successful add in the long-run specification
MaxOther == 1
\* layers of a list drawn for the renderers
MaxRenderLayers == 2
\* ids the canvas-and-logo runs hand out stay below MaxCanvasId
MaxCanvasId == 2

(* ------------------------- program constants -------------------------- *)
\* hist = (hist + [copy.deepcopy(layers)])[-20:]
HistoryCap == 20

(* ------------------------- sequences and text ------------------------- *)
Min(a, b) == IF a < b THEN a ELSE b
Max(a, b) == IF a > b THEN a ELSE b

\* Python s[-n:]
LastN(s, n) == IF Len(s) <= n THEN s ELSE SubSeq(s, Len(s) - n + 1, Len(s))

\* Python s[:-1]
ButLast(s) == SubSeq(s, 1, Len(s) - 1)

\* Python s[a:b] for 0 <= a <= b
Slice(s, a, b) == SubSeq(s, a + 1, Min(b, Len(s)))

\* a Python None where a string is expected
NoneValue == <<"<None>">>

IsSpace(c) == c \in {" ", "\n", "\t"}

RECURSIVE LStripSpace(_)
LStripSpace(t) ==
  IF t # <<>> /\ IsSpace(Head(t)) THEN LStripSpace(Tail(t)) ELSE t

RECURSIVE RStripSpace(_)
RStripSpace(t) ==
  IF t # <<>> /\ IsSpace(t[Len(t)]) THEN RStripSpace(ButLast(t)) ELSE t

\* str.strip()
Strip(t) == RStripSpace(LStripSpace(t))

\* color.lstrip('#')
RECURSIVE LStripHash(_)
LStripHash(c) == IF c # <<>> /\ Head(c) = "#" THEN LStripHash(Tail(c)) ELSE c

HexChars ==
  <<"0", "1", "2", "3", "4", "5", "6", "7", "8", "9", "A", "B", "C", "D", "E", "F">>

IsHex(c) == \E i \in 1..16 : HexChars[i] = c

HexVal(c) == (CHOOSE i \in 1..16 : HexChars[i] = c) - 1

\* int(s, 16) of a slice of at most two characters; -1 stands for ValueError
IntHex(s) ==
  IF s = <<>> \/ \E i \in 1..Len(s) : ~IsHex(s[i]) THEN -1
  ELSE IF Len(s) = 1 THEN HexVal(s[1])
  ELSE 16 * HexVal(s[1]) + HexVal(s[2])

\* tuple(int(color.lstrip('#')[i:i+2], 16) for i in (0, 2, 4));
\* <<>> stands for the exception (AttributeError on None, ValueError)
ParseHex(color) ==
  IF color = NoneValue THEN <<>>
  ELSE LET b  == LStripHash(color)
           pr == [k \in 1..3 |-> IntHex(Slice(b, 2 * (k - 1), 2 * k))]
       IN  IF \E k \in 1..3 : pr[k] < 0 THEN <<>> ELSE <<pr[1], pr[2], pr[3]>>

(* colour strings *)
Red   == <<"#", "F", "F", "0", "0", "0", "0">>
Blue  == <<"#", "0", "0", "0", "0", "F", "F">>
Black == <<"#", "0", "0", "0", "0", "0", "0">>
White == <<"#", "F", "F", "F", "F", "F", "F">>

(* ------------------------------ rasters ------------------------------- *)
\* pixels at which rasters are observed
Probes == {<<100, 100>>, <<103, 103>>, <<97, 97>>}

\* a Python None where an image is expected
NoImage == [mode |-> "None"]

\* Image.new(mode, (w, h), fill); an RGB raster keeps alpha 255 in px
NewImage(mode, w, h, fill) ==
  [mode |-> mode, w |-> w, h |-> h, px |-> [p \in Probes |-> fill]]

Transparent == <<0, 0, 0, 0>>

Opaque(rgb) == <<rgb[1], rgb[2], rgb[3], 255>>

\* image.convert('RGBA')
ConvertRGBA(img) == [img EXCEPT !.mode = "RGBA"]

\* image.convert('RGB'): the alpha band is dropped, the colour bands kept
ConvertRGB(img) ==
  [img EXCEPT !.mode = "RGB", !.px = [p \in Probes |-> Opaque(img.px[p])]]

\* Pillow's ((a) + ((a) >> 8)) >> 8
ShiftForDiv255(a) == (a + (a \div 256)) \div 256

\* Pillow's paste blend of one band: mask 0 keeps d, mask 255 gives s
Blend(mask, d, s) == ShiftForDiv255(d * (255 - mask) + s * mask + 128)

\* one pixel of Image.alpha_composite(dst, src): src over dst
OverPixelUnder(d, s) ==
  IF d[4] = 0 THEN s
  ELSE LET blend   == s[4] * (255 - d[4])
           outa255 == d[4] * 255 + blend
           coef1   == (d[4] * 255 * 255 * 128) \div outa255
           coef2   == 255 * 128 - coef1
           ch(k)   == ShiftForDiv255(d[k] * coef1 + s[k] * coef2 + 128 * 128) \div 128
       IN  <<ch(1), ch(2), ch(3), ShiftForDiv255(outa255 + 128)>>

OverPixel(d, s) ==
  IF s[4] = 0 THEN d
  ELSE LET blend   == d[4] * (255 - s[4])
           outa255 == s[4] * 255 + blend
           coef1   == (s[4] * 255 * 255 * 128) \div outa255
           coef2   == 255 * 128 - coef1
           ch(k)   == ShiftForDiv255(s[k] * coef1 + d[k] * coef2 + 128 * 128) \div 128
       IN  <<ch(1), ch(2), ch(3), ShiftForDiv255(outa255 + 128)>>

\* Image.alpha_composite(dst, src)
AlphaComposite(dst, src) ==
  [dst EXCEPT !.px = [p \in Probes |-> OverPixel(dst.px[p], src.px[p])]]

SetMax(S) == CHOOSE m \in S : \A n \in S : n <= m

(* ------------------------------- stamps ------------------------------- *)
\* text.split('\n')
RECURSIVE SplitLines(_)
SplitLines(t) ==
  IF \E i \in 1..Len(t) : t[i] = "\n"
  THEN LET k == CHOOSE i \in 1..Len(t) :
                  t[i] = "\n" /\ \A j \in 1..(i - 1) : t[j] # "\n"
       IN  <<SubSeq(t, 1, k - 1)>> \o SplitLines(SubSeq(t, k + 1, Len(t)))
  ELSE <<t>>

\* the first line of the text has a glyph that leaves ink
HasInk(text) ==
  LET first == SplitLines(text)[1]
  IN  \E i \in 1..Len(first) : ~IsSpace(first[i])

\* draw.text((sx, sy), text, ...) inks pixel p; further lines of a
\* multi-line text fall on rows that no probe observes
Covers(text, sx, sy, p) == HasInk(text) /\ p = <<sx, sy>>

Stamp(dx, dy, fill) == [dx |-> dx, dy |-> dy, fill |-> fill]

\* a sequence of draw.text calls anchored at (x, y): each inked pixel takes
\* the fill of the last call that inks it
DrawStamps(px, text, x, y, stamps) ==
  [p \in Probes |->
     LET hits == {k \in 1..Len(stamps) :
                    Covers(text, x + stamps[k].dx, y + stamps[k].dy, p)}
     IN  IF hits = {} THEN px[p] ELSE stamps[SetMax(hits)].fill]

\* what an effect function does: the stamps it draws, or an exception
\* raised before it draws any
Raised == [ok |-> FALSE, stamps |-> <<>>]
Drawn(stamps) == [ok |-> TRUE, stamps |-> stamps]

\* (gx, gy) of apply_neon_effect, row glow_size = 1..15, column angle/30 + 1:
\* int(glow_size * 0.5 * cos(radians(angle))), likewise sin, in IEEE doubles
NeonOffsets ==
  <<
    <<<<0,0>>, <<0,0>>, <<0,0>>, <<0,0>>, <<0,0>>, <<0,0>>, <<0,0>>, <<0,0>>, <<0,0>>, <<0,0>>, <<0,0>>, <<0,0>>>>,
    <<<<1,0>>, <<0,0>>, <<0,0>>, <<0,1>>, <<0,0>>, <<0,0>>, <<-1,0>>, <<0,0>>, <<0,0>>, <<0,-1>>, <<0,0>>, <<0,0>>>>,
    <<<<1,0>>, <<1,0>>, <<0,1>>, <<0,1>>, <<0,1>>, <<-1,0>>, <<-1,0>>, <<-1,0>>, <<0,-1>>, <<0,-1>>, <<0,-1>>, <<1,0>>>>,
    <<<<2,0>>, <<1,0>>, <<1,1>>, <<0,2>>, <<0,1>>, <<-1,0>>, <<-2,0>>, <<-1,-1>>, <<-1,-1>>, <<0,-2>>, <<1,-1>>, <<1,-1>>>>,
    <<<<2,0>>, <<2,1>>, <<1,2>>, <<0,2>>, <<-1,2>>, <<-2,1>>, <<-2,0>>, <<-2,-1>>, <<-1,-2>>, <<0,-2>>, <<1,-2>>, <<2,-1>>>>,
    <<<<3,0>>, <<2,1>>, <<1,2>>, <<0,3>>, <<-1,2>>, <<-2,1>>, <<-3,0>>, <<-2,-1>>, <<-1,-2>>, <<0,-3>>, <<1,-2>>, <<2,-1>>>>,
    <<<<3,0>>, <<3,1>>, <<1,3>>, <<0,3>>, <<-1,3>>, <<-3,1>>, <<-3,0>>, <<-3,-1>>, <<-1,-3>>, <<0,-3>>, <<1,-3>>, <<3,-1>>>>,
    <<<<4,0>>, <<3,1>>, <<2,3>>, <<0,4>>, <<-1,3>>, <<-3,1>>, <<-4,0>>, <<-3,-2>>, <<-2,-3>>, <<0,-4>>, <<2,-3>>, <<3,-2>>>>,
    <<<<4,0>>, <<3,2>>, <<2,3>>, <<0,4>>, <<-2,3>>, <<-3,2>>, <<-4,0>>, <<-3,-2>>, <<-2,-3>>, <<0,-4>>, <<2,-3>>, <<3,-2>>>>,
    <<<<5,0>>, <<4,2>>, <<2,4>>, <<0,5>>, <<-2,4>>, <<-4,2>>, <<-5,0>>, <<-4,-2>>, <<-2,-4>>, <<0,-5>>, <<2,-4>>, <<4,-2>>>>,
    <<<<5,0>>, <<4,2>>, <<2,4>>, <<0,5>>, <<-2,4>>, <<-4,2>>, <<-5,0>>, <<-4,-2>>, <<-2,-4>>, <<0,-5>>, <<2,-4>>, <<4,-2>>>>,
    <<<<6,0>>, <<5,2>>, <<3,5>>, <<0,6>>, <<-2,5>>, <<-5,2>>, <<-6,0>>, <<-5,-3>>, <<-3,-5>>, <<0,-6>>, <<3,-5>>, <<5,-3>>>>,
    <<<<6,0>>, <<5,3>>, <<3,5>>, <<0,6>>, <<-3,5>>, <<-5,3>>, <<-6,0>>, <<-5,-3>>, <<-3,-5>>, <<0,-6>>, <<3,-5>>, <<5,-3>>>>,
    <<<<7,0>>, <<6,3>>, <<3,6>>, <<0,7>>, <<-3,6>>, <<-6,3>>, <<-7,0>>, <<-6,-3>>, <<-3,-6>>, <<0,-7>>, <<3,-6>>, <<6,-3>>>>,
    <<<<7,0>>, <<6,3>>, <<3,6>>, <<0,7>>, <<-3,6>>, <<-6,3>>, <<-7,0>>, <<-6,-3>>, <<-3,-6>>, <<0,-7>>, <<3,-6>>, <<6,-3>>>>
  >>

\* apply_neon_effect
apply_neon_effect(base_color, glow_color) ==
  LET base_rgb == ParseHex(base_color)
      glow_rgb == ParseHex(glow_color)
      halo == [k \in 1..180 |->
                 LET gs  == 15 - ((k - 1) \div 12)
                     off == NeonOffsets[gs][((k - 1) % 12) + 1]
                 IN  Stamp(off[1], off[2],
                           <<glow_rgb[1], glow_rgb[2], glow_rgb[3], 8 * gs>>)]
  IN  IF base_rgb = <<>> \/ glow_rgb = <<>> THEN Raised
      ELSE Drawn(halo \o << Stamp(0, 0, <<255, 255, 255, 255>>),
                            Stamp(0, 0, <<base_rgb[1], base_rgb[2], base_rgb[3], 200>>) >>)

\* apply_chrome_effect
apply_chrome_effect ==
  Drawn([k \in 1..4 |->
           LET offset == 4 - k
               gray   == 80 + offset * 40
           IN  Stamp(-offset, -offset, <<gray, gray, gray, 255>>)]
        \o << Stamp(1, 1, <<255, 255, 255, 180>>),
              Stamp(0, 0, <<192, 192, 192, 255>>) >>)

fire_colors ==
  << <<255, 255, 0>>, <<255, 200, 0>>, <<255, 140, 0>>, <<255, 69, 0>>, <<139, 0, 0>> >>

\* apply_fire_effect
apply_fire_effect ==
  LET one(i) ==
        LET c      == fire_colors[i + 1]
            offset == i * 2
            alpha  == 255 - (i * 40)
        IN  << Stamp(0, -offset, <<c[1], c[2], c[3], alpha>>) >>
            \o (IF i > 0
                THEN << Stamp(-1, -offset + 1, <<c[1], c[2], c[3], alpha \div 2>>),
                        Stamp(1, -offset + 1, <<c[1], c[2], c[3], alpha \div 2>>) >>
                ELSE <<>>)
  IN  Drawn(one(0) \o one(1) \o one(2) \o one(3) \o one(4))

\* apply_3d_shadow_effect, depth = 5
apply_3d_shadow_effect(text_color, shadow_color) ==
  LET text_rgb   == ParseHex(text_color)
      shadow_rgb == ParseHex(shadow_color)
  IN  IF text_rgb = <<>> \/ shadow_rgb = <<>> THEN Raised
      ELSE Drawn([k \in 1..5 |->
                    LET i == 6 - k
                    IN  Stamp(i * 2, i * 2,
                              <<shadow_rgb[1], shadow_rgb[2], shadow_rgb[3], 200>>)]
                 \o << Stamp(0, 0, Opaque(text_rgb)) >>)

\* the (c1, c2, i, H), among channel values 0, 29, 255 and H <= 8, for which
\* the IEEE double c1 * (1 - i / H) + c2 * (i / H) falls just below its exact
\* value, an integer, so that int() returns one less
FloatShort == {<<255, 0, 4, 5>>, <<29, 29, 3, 7>>, <<255, 255, 3, 7>>}

\* ratio = i / H; int(c1 * (1 - ratio) + c2 * ratio)
GradientChannel(c1, c2, i, H) ==
  ((c1 * (H - i) + c2 * i) \div H) - (IF <<c1, c2, i, H>> \in FloatShort THEN 1 ELSE 0)

\* row i of the gradient buffer of a glyph box of height H
GradientRow(c1, c2, i, H) ==
  [k \in 1..3 |-> GradientChannel(c1[k], c2[k], i, H)]

\* apply_gradient_effect: the glyph's single ink row is row 0 of its box
apply_gradient_effect(color1, color2) ==
  LET c1_rgb == ParseHex(color1)
      c2_rgb == ParseHex(color2)
  IN  IF c1_rgb = <<>> \/ c2_rgb = <<>> THEN Raised
      ELSE Drawn(<< Stamp(0, 0, Opaque(GradientRow(c1_rgb, c2_rgb, 0, 1))) >>)

(* --------------------- text-effects renderer -------------------------- *)
\* TextLayer(...) as add_text builds it
TextLayer(id, text, font_style, font_size, text_color, x, y, outline_width, outline_color, add_shadow, shadow_blur, add_glow, opacity, visible, effect_type) ==
  [id |-> id, text |-> text, font_style |-> font_style, font_size |-> font_size,
   text_color |-> text_color, x |-> x, y |-> y, outline_width |-> outline_width,
   outline_color |-> outline_color, add_shadow |-> add_shadow,
   shadow_blur |-> shadow_blur, add_glow |-> add_glow, opacity |-> opacity,
   visible |-> visible, effect_type |-> effect_type]

\* ImageFont.truetype(font_path, size): an unknown font key falls back to the
\* first font; a size <= 0 raises
FontLoads(font_size) == font_size > 0

\* render_text_layer
render_text_layer(layer) ==
  LET text_rgb    == ParseHex(layer.text_color)
      w           == layer.outline_width
      outline_rgb == ParseHex(layer.outline_color)
      ring        == << Stamp(-w, -w, Opaque(outline_rgb)), Stamp(-w, 0, Opaque(outline_rgb)),
                        Stamp(-w, w, Opaque(outline_rgb)),  Stamp(0, -w, Opaque(outline_rgb)),
                        Stamp(0, w, Opaque(outline_rgb)),   Stamp(w, -w, Opaque(outline_rgb)),
                        Stamp(w, 0, Opaque(outline_rgb)),   Stamp(w, w, Opaque(outline_rgb)) >>
  IN  IF text_rgb = <<>> THEN Raised
      ELSE IF w > 0 /\ outline_rgb = <<>> THEN Raised
      ELSE Drawn((IF w > 0 THEN ring ELSE <<>>) \o << Stamp(0, 0, Opaque(text_rgb)) >>)

\* render_text_layer_advanced(draw, layer, font, image)
render_text_layer_advanced(layer, image) ==
  IF layer.effect_type = "neon"
    THEN apply_neon_effect(layer.text_color, layer.outline_color)
  ELSE IF layer.effect_type = "chrome" THEN apply_chrome_effect
  ELSE IF layer.effect_type = "fire" THEN apply_fire_effect
  ELSE IF layer.effect_type = "3d"
    THEN apply_3d_shadow_effect(layer.text_color, layer.outline_color)
  ELSE IF layer.effect_type = "gradient" /\ image
    THEN apply_gradient_effect(layer.text_color, layer.outline_color)
  ELSE render_text_layer(layer)

\* the body of the try block of render_all_layers up to the composite:
\* what is drawn into the layer's own transparent buffer
LayerStamps(layer) ==
  IF ~FontLoads(layer.font_size) THEN Raised
  ELSE IF layer.effect_type # "normal"
    THEN render_text_layer_advanced(layer, layer.effect_type = "gradient")
  ELSE render_text_layer(layer)

\* text_layer_img after the layer was drawn into it
LayerBuffer(img, layer) ==
  [img EXCEPT !.mode = "RGBA",
              !.px = DrawStamps([p \in Probes |-> Transparent], layer.text,
                                layer.x, layer.y, LayerStamps(layer).stamps)]

\* the loop of render_all_layers from layer i on
RECURSIVE CompositeLayers(_, _, _)
CompositeLayers(result, layers, i) ==
  IF i > Len(layers) THEN result
  ELSE CompositeLayers(
         IF layers[i].visible /\ LayerStamps(layers[i]).ok
           THEN AlphaComposite(result, LayerBuffer(result, layers[i]))
           ELSE result,
         layers, i + 1)

\* render_all_layers(base_image, layers)
render_all_layers(base_image, layers) ==
  IF base_image = NoImage \/ layers = <<>> THEN base_image
  ELSE ConvertRGB(CompositeLayers(ConvertRGBA(base_image), layers, 1))

(* ------------------------ social-post renderer ------------------------ *)
SizeKeys ==
  {"Instagram Square (1:1)", "Instagram Story (9:16)", "Facebook Post (1.91:1)",
   "Twitter Post (16:9)"}

\* post_sizes
post_sizes ==
  [k \in SizeKeys |->
     IF k = "Instagram Square (1:1)" THEN <<1080, 1080>>
     ELSE IF k = "Instagram Story (9:16)" THEN <<1080, 1920>>
     ELSE IF k = "Facebook Post (1.91:1)" THEN <<1200, 630>>
     ELSE <<1600, 900>>]

\* SocialLayer(id=..., type=..., properties=props); visible defaults to True
SocialLayer(id, type, properties) ==
  [id |-> id, type |-> type, properties |-> properties, visible |-> TRUE]

\* isinstance(color, str) and color.startswith('#')
IsHashString(color) == color # NoneValue /\ color # <<>> /\ Head(color) = "#"

\* PIL.ImageColor.getrgb of a '#'-string: #rgb, #rgba, #rrggbb, #rrggbbaa;
\* <<>> stands for ValueError
GetRGB(color) ==
  LET h  == Tail(color)
      d  == [i \in 1..Len(h) |-> IntHex(<<h[i]>>)]
      pr == [k \in 1..4 |-> IntHex(Slice(h, 2 * (k - 1), 2 * k))]
  IN  IF \E i \in 1..Len(h) : ~IsHex(h[i]) THEN <<>>
      ELSE IF Len(h) = 3 THEN <<17 * d[1], 17 * d[2], 17 * d[3], 255>>
      ELSE IF Len(h) = 4 THEN <<17 * d[1], 17 * d[2], 17 * d[3], 17 * d[4]>>
      ELSE IF Len(h) = 6 THEN <<pr[1], pr[2], pr[3], 255>>
      ELSE IF Len(h) = 8 THEN <<pr[1], pr[2], pr[3], pr[4]>>
      ELSE <<>>

\* what one social layer does to img: the pixels it leaves, and whether it
\* ended in an exception (caught at the layer)
Left(ok, px) == [ok |-> ok, px |-> px]

\* the effect dispatch of render_social_text_layer for one line of text
SocialLineStamps(props, image) ==
  LET color         == props.color
      outline_color == props.outline_color
      effect        == props.effect_type
  IN  IF effect = "neon" THEN apply_neon_effect(color, outline_color)
      ELSE IF effect = "chrome" THEN apply_chrome_effect
      ELSE IF effect = "fire" THEN apply_fire_effect
      ELSE IF effect = "3d" THEN apply_3d_shadow_effect(color, outline_color)
      ELSE IF effect = "gradient" /\ image
        THEN apply_gradient_effect(color, outline_color)
      ELSE IF IsHashString(color)
        THEN (IF ParseHex(color) = <<>> THEN Raised
              ELSE Drawn(<< Stamp(0, 0, Opaque(ParseHex(color))) >>))
      ELSE Drawn(<< Stamp(0, 0, <<0, 0, 0, 255>>) >>)

\* the per-line loop of render_social_text_layer from line i on
RECURSIVE DrawLines(_, _, _, _, _)
DrawLines(px, props, lines, line_height, i) ==
  IF i > Len(lines) THEN Left(TRUE, px)
  ELSE LET e == SocialLineStamps(props, TRUE)
       IN  IF ~e.ok THEN Left(FALSE, px)
           ELSE DrawLines(DrawStamps(px, lines[i], props.x,
                                     props.y + (i - 1) * line_height, e.stamps),
                          props, lines, line_height, i + 1)

\* render_social_text_layer(draw, props, image) for a layer that carries its
\* own position, as every layer the editor builds does
render_social_text_layer(img, props) ==
  LET font_size == IF props.font_size # 0 THEN props.font_size
                   ELSE IF props.is_heading THEN Max(30, img.w \div 18)
                   ELSE Max(20, img.w \div 35)
      text      == props.text
      multiline == \E i \in 1..Len(text) : text[i] = "\n"
      e         == SocialLineStamps(props, TRUE)
  IN  IF ~FontLoads(font_size) THEN Left(FALSE, img.px)
      ELSE IF ~props.is_heading /\ multiline
        THEN DrawLines(img.px, props, SplitLines(text), font_size + 10, 1)
      \* draw.text(..., anchor="lt") of the plain branch refuses a multi-line text
      ELSE IF ~e.ok \/ (multiline /\ props.effect_type \notin
                                      {"neon", "chrome", "fire", "3d", "gradient"})
        THEN Left(FALSE, img.px)
      ELSE Left(TRUE, DrawStamps(img.px, text, props.x, props.y, e.stamps))

\* a decoded logo raster of one colour
LogoImage(mode, w, h, fill) == [mode |-> mode, w |-> w, h |-> h, fill |-> fill]

\* the size Image.thumbnail((t, t)) leaves a w x h raster with
ThumbnailSize(w, h, t) ==
  LET absd(a)       == IF a < 0 THEN -a ELSE a
      ceil(n, d)    == (n + d - 1) \div d
      \* width for height t: the closer of floor and ceil of t * w / h
      fx            == (t * w) \div h
      cx            == ceil(t * w, h)
      x             == Max(IF absd(w * t - fx * h) <= absd(w * t - cx * h) THEN fx ELSE cx, 1)
      \* height for width t: the closer of floor and ceil of t * h / w
      fy            == (t * h) \div w
      cy            == ceil(t * h, w)
      y             == Max(IF fy = 0 \/ absd(w * fy - t * h) * cy <= absd(w * cy - t * h) * fy
                             THEN fy ELSE cy, 1)
  IN  IF t >= w /\ t >= h THEN <<w, h>>
      ELSE IF h >= w THEN <<x, t>>
      ELSE <<t, y>>

\* target_size from the "Logo Size" choice
TargetSize(size_str) ==
  IF size_str = "Small (50px)" THEN 50
  ELSE IF size_str = "Large (150px)" THEN 150
  ELSE 100

\* where the logo branch of render_social_post pastes: <<paste_x, paste_y, w, h>>
LogoBox(width, height, props) ==
  LET logo == props.logo_obj
      sz   == ThumbnailSize(logo.w, logo.h, TargetSize(props.size_str))
  IN  << Min(Max(0, props.x - (sz[1] \div 2)), width - sz[1]),
         Min(Max(0, props.y - (sz[2] \div 2)), height - sz[2]),
         sz[1], sz[2] >>

\* the logo branch of render_social_post
draw_logo(img, width, height, props) ==
  LET logo == props.logo_obj
      box  == LogoBox(width, height, props)
      in(p) == /\ box[1] <= p[1] /\ p[1] < box[1] + box[3]
               /\ box[2] <= p[2] /\ p[2] < box[2] + box[4]
               /\ p[1] < img.w /\ p[2] < img.h
  IN  IF logo = NoImage THEN Left(TRUE, img.px)
      ELSE Left(TRUE,
             [p \in Probes |->
                IF ~in(p) THEN img.px[p]
                ELSE IF logo.mode = "RGBA"
                  THEN [k \in 1..4 |-> Blend(logo.fill[4], img.px[p][k], logo.fill[k])]
                ELSE Opaque(logo.fill)])

\* one iteration of the layer loop of render_social_post
DrawSocialLayer(img, width, height, layer) ==
  IF ~layer.visible THEN img
  ELSE IF layer.type = "text"
    THEN [img EXCEPT !.px = render_social_text_layer(img, layer.properties).px]
  ELSE IF layer.type = "logo"
    THEN [img EXCEPT !.px = draw_logo(img, width, height, layer.properties).px]
  ELSE img

RECURSIVE DrawSocialLayers(_, _, _, _, _)
DrawSocialLayers(img, width, height, layers, i) ==
  IF i > Len(layers) THEN img
  ELSE DrawSocialLayers(DrawSocialLayer(img, width, height, layers[i]),
                        width, height, layers, i + 1)

\* final_rgb_img.paste(img, mask=img.split()[3]) on a white raster
FlattenOnWhite(img) ==
  [img EXCEPT !.mode = "RGB",
              !.px = [p \in Probes |->
                        << Blend(img.px[p][4], 255, img.px[p][1]),
                           Blend(img.px[p][4], 255, img.px[p][2]),
                           Blend(img.px[p][4], 255, img.px[p][3]), 255 >>]]

\* a Python None where a template path is expected
NoTemplate == "<None>"

\* os.path.exists(template_path) for the files of the templates folder
TemplateExists(template_path) ==
  template_path \in {"templates/soft.png", "templates/broken.png"}

\* the raster Image.open(path).convert('RGBA') decodes, resized to (w, h);
\* NoImage when the path does not exist or the file does not decode
TemplateRaster(template_path, w, h) ==
  IF template_path = "templates/soft.png"
    THEN NewImage("RGBA", w, h, <<0, 128, 0, 128>>)
  ELSE NoImage

\* the grey raster both renderers of the social tab return on an exception
ErrorImage == NewImage("RGB", 300, 100, <<128, 128, 128, 255>>)

\* render_social_post
render_social_post(size_key, bg_color, template_path, bg_type, social_layers, base_image) ==
  IF size_key \notin SizeKeys THEN ErrorImage
  ELSE
    LET width  == post_sizes[size_key][1]
        height == post_sizes[size_key][2]
        color  == IF IsHashString(bg_color) THEN bg_color ELSE White
        solid  == IF GetRGB(color) = <<>> THEN NoImage
                  ELSE NewImage("RGBA", width, height, GetRGB(color))
        img    == IF base_image # NoImage THEN ConvertRGBA(base_image)
                  ELSE IF bg_type = "Template" /\ template_path # NoTemplate
                    THEN (IF TemplateRaster(template_path, width, height) # NoImage
                            THEN TemplateRaster(template_path, width, height)
                            ELSE solid)
                  ELSE solid
    IN  IF img = NoImage THEN ErrorImage
        ELSE FlattenOnWhite(DrawSocialLayers(img, width, height, social_layers, 1))

(* ------------------------------- state -------------------------------- *)
VARIABLES
  tab,                 \* the editor a behaviour works in
  img_display,         \* "Your Image" of the first tab
  base_image_state,    \* text-effects editor: gr.State(None)
  layers_state,        \* gr.State([])
  next_layer_id,       \* gr.State(1)
  history,             \* gr.State([])
  preview,             \* the preview image component
  status,              \* the status textbox
  social_post_base_image,   \* social-post editor: gr.State(None)
  social_layers_state,      \* gr.State([])
  social_next_layer_id,     \* gr.State(1)
  social_history,           \* gr.State([])
  logo_image_state,         \* gr.State(None)
  template_selection_state, \* gr.State(None)
  post_preview_img,         \* the post preview image component
  post_status_text,         \* the status textbox of the social tab
  trail,               \* the last two handlers run, the latest last
  before,              \* the layer list the latest handler started from
  runAdds,             \* successive successful adds since any other handler
  lastIssued,          \* the id the latest successful add on this canvas handed out
  others,              \* handlers other than a successful add (long runs only)
  r_base,              \* renderer runs: the base raster handed to a renderer
  r_layers,            \* the layer list handed to it
  r_out,               \* the raster it returned
  g_colors,            \* gradient runs: the pair <<color1, color2>> handed over
  g_height,            \* the height of the glyph's bounding box
  g_rows,              \* the rows of the gradient raster built from them
  users,               \* the users table: the one row the calls work on
  usage_logs,          \* the number of rows of the usage_logs table
  calls,               \* the calls of generate_image_with_auth in flight
  replicate_ready      \* REPLICATE_AVAILABLE and REPLICATE_API_TOKEN

effectsVars ==
  <<img_display, base_image_state, layers_state, next_layer_id, history, preview, status>>

ghostVars == <<trail, before, runAdds, lastIssued>>

socialVars ==
  <<social_post_base_image, social_layers_state, social_next_layer_id, social_history,
    logo_image_state, template_selection_state, post_preview_img, post_status_text>>

renderVars == <<r_base, r_layers, r_out>>

gradientVars == <<g_colors, g_height, g_rows>>

usageVars == <<users, usage_logs, calls, replicate_ready>>

vars ==
  <<tab, effectsVars, socialVars, ghostVars, others, renderVars, gradientVars, usageVars>>

\* the handler op has run
Logged(op) == LastN(Append(trail, op), 2)

(* ------------------------- input alphabets ---------------------------- *)

\* rasters the first tab can hold (gr.Image(type="pil") hands over RGB)
ImgA == NewImage("RGB", 200, 200, <<255, 255, 255, 255>>)
ImgB == NewImage("RGB", 200, 200, <<0, 0, 0, 255>>)

Uploads == {NoImage, ImgA, ImgB}

\* texts typed into a text box
Texts == {<<"a">>, <<" ">>}

TextColors == {Red, Blue}

(* ----------------------- text-effects editor -------------------------- *)
\* process_uploaded_image, for rasters within max_size
process_uploaded_image(image) ==
  /\ img_display' = image
  /\ UNCHANGED <<base_image_state, layers_state, next_layer_id, history, preview, status>>
  /\ UNCHANGED ghostVars

\* load_btn.click(...).then(...): preview and status, then base_image_state
load_image ==
  /\ preview' = img_display
  /\ status' = IF img_display # NoImage
                 THEN <<"Image loaded! Click on image to position text">>
                 ELSE <<"No image in Tab 1">>
  /\ base_image_state' = img_display
  /\ UNCHANGED <<img_display, layers_state, next_layer_id, history>>
  /\ trail' = Logged("load")
  /\ before' = layers_state
  /\ runAdds' = 0
  /\ lastIssued' = 0

\* (hist + [copy.deepcopy(layers)])[-20:]
PushHistoryUncapped(hist, layers) == Append(hist, layers)

PushHistorySkipped(hist, layers) == hist

PushHistory(hist, layers) == LastN(Append(hist, layers), HistoryCap)

\* next_id + 1, the counter an add handler returns
AdvanceIdStuck(next_id) == next_id

AdvanceId(next_id) == next_id + 1

\* add_text passes both of its checks
AddTextAccepts(txt) == base_image_state # NoImage /\ Strip(txt) # <<>>

\* add_text
add_text(txt, fnt, sz, tcol, ocol, ow, shad, blur, glow, opac, x, y, effect_type) ==
  /\ IF base_image_state = NoImage
       THEN /\ UNCHANGED <<layers_state, next_layer_id, history>>
            /\ preview' = NoImage
            /\ status' = <<"Load image first">>
            /\ trail' = Logged("add_rejected")
            /\ before' = layers_state
            /\ runAdds' = 0
            /\ UNCHANGED lastIssued
     ELSE IF Strip(txt) = <<>>
       THEN /\ UNCHANGED <<layers_state, next_layer_id, history>>
            /\ preview' = NoImage
            /\ status' = <<"Enter text">>
            /\ trail' = Logged("add_rejected")
            /\ before' = layers_state
            /\ runAdds' = 0
            /\ UNCHANGED lastIssued
     ELSE LET new_layer == TextLayer(next_layer_id, txt, fnt,
                                     sz, tcol, x, y, ow, ocol, shad, blur, glow, opac,
                                     TRUE, effect_type)
              layers    == Append(layers_state, new_layer)
          IN  /\ history' = PushHistory(history, layers_state)
              /\ layers_state' = layers
              /\ next_layer_id' = AdvanceId(next_layer_id)
              /\ preview' = render_all_layers(base_image_state, layers)
              /\ status' = <<"Added Layer", next_layer_id, effect_type>>
              /\ trail' = Logged("add")
              /\ before' = layers_state
              /\ runAdds' = runAdds + 1
              /\ lastIssued' = new_layer.id
  /\ UNCHANGED <<img_display, base_image_state>>

\* layers[:-1]
DropLast(layers) == ButLast(layers)

\* remove_last
remove_last ==
  /\ IF layers_state = <<>>
       THEN /\ UNCHANGED <<layers_state, history>>
            /\ preview' = NoImage
            /\ status' = <<"No layers">>
            /\ trail' = Logged("remove_noop")
            /\ before' = layers_state
     ELSE /\ history' = PushHistory(history, layers_state)
          /\ layers_state' = DropLast(layers_state)
          /\ preview' = IF base_image_state # NoImage
                          THEN render_all_layers(base_image_state, DropLast(layers_state))
                          ELSE NoImage
          /\ status' = <<"Removed last layer">>
          /\ trail' = Logged("remove_last")
          /\ before' = layers_state
  /\ runAdds' = 0
  /\ UNCHANGED <<img_display, base_image_state, next_layer_id, lastIssued>>

\* the list undo restores: copy.deepcopy(hist[-1])
UndoTargetOldest(hist) == hist[1]

UndoTarget(hist) == hist[Len(hist)]

undo_records_noop ==
  /\ IF history = <<>>
       THEN /\ UNCHANGED layers_state
            /\ history' = <<layers_state>>
            /\ preview' = NoImage
            /\ status' = <<"Nothing to undo">>
            /\ trail' = Logged("undo_noop")
            /\ before' = layers_state
     ELSE /\ layers_state' = history[Len(history)]
          /\ history' = ButLast(history)
          /\ preview' = IF base_image_state # NoImage
                          THEN render_all_layers(base_image_state, history[Len(history)])
                          ELSE NoImage
          /\ status' = <<"Undone">>
          /\ trail' = Logged("undo")
          /\ before' = layers_state
  /\ runAdds' = 0
  /\ UNCHANGED <<img_display, base_image_state, next_layer_id, lastIssued>>

PopHistoryKeeps(hist) == hist

\* hist[:-1]
PopHistory(hist) == ButLast(hist)

\* undo
undo ==
  /\ IF history = <<>>
       THEN /\ UNCHANGED <<layers_state, history>>
            /\ preview' = NoImage
            /\ status' = <<"Nothing to undo">>
            /\ trail' = Logged("undo_noop")
            /\ before' = layers_state
     ELSE /\ layers_state' = UndoTarget(history)
          /\ history' = PopHistory(history)
          /\ preview' = IF base_image_state # NoImage
                          THEN render_all_layers(base_image_state, UndoTarget(history))
                          ELSE NoImage
          /\ status' = <<"Undone">>
          /\ trail' = Logged("undo")
          /\ before' = layers_state
  /\ runAdds' = 0
  /\ UNCHANGED <<img_display, base_image_state, next_layer_id, lastIssued>>

clear_all_keeps_history ==
  /\ layers_state' = <<>>
  /\ next_layer_id' = 1
  /\ history' = history
  /\ preview' = base_image_state
  /\ status' = IF base_image_state # NoImage
                 THEN <<"All layers cleared">>
                 ELSE <<"No image loaded">>
  /\ trail' = Logged("clear_all")
  /\ before' = layers_state
  /\ runAdds' = 0
  /\ UNCHANGED <<img_display, base_image_state, lastIssued>>

\* clear_all_layers
clear_all_layers ==
  /\ layers_state' = <<>>
  /\ next_layer_id' = 1
  /\ history' = <<>>
  /\ preview' = base_image_state
  /\ status' = IF base_image_state # NoImage
                 THEN <<"All layers cleared">>
                 ELSE <<"No image loaded">>
  /\ trail' = Logged("clear_all")
  /\ before' = layers_state
  /\ runAdds' = 0
  /\ UNCHANGED <<img_display, base_image_state, lastIssued>>

(* ------------------------- social-post editor ------------------------- *)
\* update_preview_and_layer_list
update_preview_and_layer_list(base_img, layers, size_key, bg_color, template_path, bg_type) ==
  IF base_img # NoImage
    THEN render_social_post(size_key, bg_color, template_path, bg_type, layers, base_img)
  ELSE IF size_key \notin SizeKeys THEN ErrorImage
  ELSE
    LET width  == post_sizes[size_key][1]
        height == post_sizes[size_key][2]
        tpl    == TemplateRaster(template_path, width, height)
        color  == IF IsHashString(bg_color) THEN bg_color ELSE White
        made   == IF bg_type = "Template" /\ template_path # NoTemplate
                    THEN (IF tpl # NoImage THEN FlattenOnWhite(tpl)
                          ELSE IF TemplateExists(template_path) THEN NoImage
                          ELSE NewImage("RGB", width, height, <<255, 255, 255, 255>>))
                  ELSE IF GetRGB(color) = <<>> THEN NoImage
                  ELSE NewImage("RGB", width, height, Opaque(GetRGB(color)))
    IN  IF made = NoImage THEN ErrorImage
        ELSE render_social_post(size_key, bg_color, template_path, bg_type, layers, made)

\* social_layers_state.change(update_on_layers_change, ...): runs after a
\* handler that gave the layer list a new value, and only then
PreviewAfter(new_layers, shown, base_img, size_key, bg_color, template_path, bg_type) ==
  IF new_layers # social_layers_state
    THEN update_preview_and_layer_list(base_img, new_layers, size_key, bg_color,
                                       template_path, bg_type)
  ELSE shown

\* the outputs of a canvas-creating handler, and the preview listener after it
CanvasOutputs(base_img, status_text, size_key, bg_color, template_path, bg_type) ==
  /\ social_post_base_image' = base_img
  /\ social_layers_state' = <<>>
  /\ social_next_layer_id' = 1
  /\ social_history' = <<>>
  /\ post_preview_img' = PreviewAfter(<<>>, base_img, base_img, size_key, bg_color,
                                      template_path, bg_type)
  /\ post_status_text' = status_text

\* create_base_canvas_color
create_base_canvas_color(size_key, bg_color) ==
  LET width  == post_sizes[size_key][1]
      height == post_sizes[size_key][2]
      color  == IF IsHashString(bg_color) THEN bg_color ELSE White
  IN  /\ IF size_key \notin SizeKeys \/ GetRGB(color) = <<>>
           THEN CanvasOutputs(NoImage, <<"Error">>, size_key, bg_color,
                              template_selection_state, "Solid Color")
         ELSE CanvasOutputs(NewImage("RGB", width, height, Opaque(GetRGB(color))),
                            <<"Canvas set. Add elements.">>, size_key, bg_color,
                            template_selection_state, "Solid Color")
      /\ UNCHANGED <<logo_image_state, template_selection_state>>
      /\ trail' = Logged("create_color")
      /\ before' = social_layers_state
      /\ runAdds' = 0
      /\ lastIssued' = 0

\* Image.new('RGB', (width, height), "#FFFFFF") of create_base_canvas_template
TemplateFallbackNone(width, height) == NoImage

TemplateFallback(width, height) == NewImage("RGB", width, height, <<255, 255, 255, 255>>)

\* select_template, and create_base_canvas_template on the change of
\* template_selection_state
create_base_canvas_template(size_key, template_path) ==
  LET width  == post_sizes[size_key][1]
      height == post_sizes[size_key][2]
      tpl    == TemplateRaster(template_path, width, height)
  IN  /\ template_selection_state' = template_path
      /\ IF template_path = NoTemplate
           THEN CanvasOutputs(NoImage, <<"No template selected.">>, size_key, White,
                              template_path, "Template")
         ELSE IF ~TemplateExists(template_path)
           THEN CanvasOutputs(TemplateFallback(width, height),
                              <<"Template not found. Using white background.">>,
                              size_key, White, template_path, "Template")
         ELSE IF tpl = NoImage
           THEN CanvasOutputs(TemplateFallback(width, height),
                              <<"Error loading template. Using white background.">>,
                              size_key, White, template_path, "Template")
         ELSE CanvasOutputs(FlattenOnWhite(tpl), <<"Template set. Add elements.">>,
                            size_key, White, template_path, "Template")
      /\ UNCHANGED logo_image_state
      /\ trail' = Logged("create_template")
      /\ before' = social_layers_state
      /\ runAdds' = 0
      /\ lastIssued' = 0

\* store_logo
store_logo(img) ==
  /\ logo_image_state' = img
  /\ UNCHANGED <<social_post_base_image, social_layers_state, social_next_layer_id,
                 social_history, template_selection_state, post_preview_img,
                 post_status_text>>
  /\ UNCHANGED ghostVars

\* what the three add handlers of the social tab share: the rejected return,
\* or the new layer appended under the next id
SocialAdd(accepted, type, props, rejected_text, added_text, op, size_key, bg_color, bg_type) ==
  /\ IF ~accepted
       THEN /\ UNCHANGED <<social_layers_state, social_next_layer_id, post_preview_img>>
            /\ post_status_text' = rejected_text
            /\ trail' = Logged("add_rejected")
            /\ runAdds' = 0
            /\ UNCHANGED lastIssued
     ELSE LET updated_layers ==
                Append(social_layers_state, SocialLayer(social_next_layer_id, type, props))
          IN  /\ social_layers_state' = updated_layers
              /\ social_next_layer_id' = AdvanceId(social_next_layer_id)
              /\ post_preview_img' =
                   PreviewAfter(updated_layers, post_preview_img, social_post_base_image,
                                size_key, bg_color, template_selection_state, bg_type)
              /\ post_status_text' = added_text
              /\ trail' = Logged(op)
              /\ runAdds' = runAdds + 1
              /\ lastIssued' = social_next_layer_id
  /\ before' = social_layers_state
  /\ UNCHANGED <<social_post_base_image, social_history, logo_image_state,
                 template_selection_state>>

\* PRESETS[preset_name].get('outline_color', '#000000'), '#000000' for "Custom"
PresetOutline(preset_name) ==
  IF preset_name = "Neon Glow" THEN <<"#", "F", "F", "0", "0", "F", "F">>
  ELSE IF preset_name = "Chrome Metal" THEN <<"#", "8", "0", "8", "0", "8", "0">>
  ELSE IF preset_name = "Fire Text" THEN <<"#", "F", "F", "D", "7", "0", "0">>
  ELSE IF preset_name = "Ice Frozen" THEN <<"#", "4", "6", "8", "2", "B", "4">>
  ELSE IF preset_name = "Gradient Rainbow" THEN <<"#", "8", "A", "2", "B", "E", "2">>
  ELSE IF preset_name = "Gold Luxury" THEN <<"#", "B", "8", "8", "6", "0", "B">>
  ELSE Black

\* add_heading_element
add_heading_element(head_txt, font_key, font_size, txt_color, effect_type, preset_name, x, y, size_key, bg_color, bg_type) ==
  SocialAdd(Strip(head_txt) # <<>>, "text",
            [text |-> head_txt, font_key |-> font_key, font_size |-> font_size,
             color |-> txt_color, is_heading |-> TRUE, effect_type |-> effect_type,
             x |-> x, y |-> y, outline_color |-> PresetOutline(preset_name)],
            <<"Enter heading text">>, <<"Heading added at position", x, y>>,
            "add", size_key, bg_color, bg_type)

\* add_paragraph_element
add_paragraph_element(para_txt, font_key, font_size, txt_color, align, effect_type, preset_name, x, y, size_key, bg_color, bg_type) ==
  SocialAdd(Strip(para_txt) # <<>>, "text",
            [text |-> para_txt, font_key |-> font_key, font_size |-> font_size,
             color |-> txt_color, align |-> align, is_heading |-> FALSE,
             effect_type |-> effect_type, x |-> x, y |-> y,
             outline_color |-> PresetOutline(preset_name)],
            <<"Enter paragraph text">>, <<"Paragraph added at position", x, y>>,
            "add", size_key, bg_color, bg_type)

\* add_logo_element
add_logo_element(size_str, x, y, size_key, bg_color, bg_type) ==
  SocialAdd(logo_image_state # NoImage, "logo",
            [logo_obj |-> logo_image_state, size_str |-> size_str, x |-> x, y |-> y],
            <<"Upload a logo first">>, <<"Logo added at position", x, y>>,
            "add", size_key, bg_color, bg_type)

\* remove_last_social_layer
remove_last_social_layer(size_key, bg_color, bg_type) ==
  /\ IF social_layers_state = <<>>
       THEN /\ UNCHANGED <<social_layers_state, post_preview_img>>
            /\ post_status_text' = <<"No elements to remove">>
            /\ trail' = Logged("remove_noop")
     ELSE /\ social_layers_state' = ButLast(social_layers_state)
          /\ post_preview_img' =
               PreviewAfter(ButLast(social_layers_state), post_preview_img,
                            social_post_base_image, size_key, bg_color,
                            template_selection_state, bg_type)
          /\ post_status_text' = <<"Removed last element">>
          /\ trail' = Logged("remove_last")
  /\ before' = social_layers_state
  /\ runAdds' = 0
  /\ UNCHANGED <<social_post_base_image, social_next_layer_id, social_history,
                 logo_image_state, template_selection_state, lastIssued>>

\* clear_all_social_layers
clear_all_social_layers(size_key, bg_color, bg_type) ==
  /\ social_layers_state' = <<>>
  /\ post_preview_img' =
       PreviewAfter(<<>>, post_preview_img, social_post_base_image, size_key, bg_color,
                    template_selection_state, bg_type)
  /\ post_status_text' = <<"Cleared all elements">>
  /\ trail' = Logged("clear_all")
  /\ before' = social_layers_state
  /\ runAdds' = 0
  /\ UNCHANGED <<social_post_base_image, social_next_layer_id, social_history,
                 logo_image_state, template_selection_state, lastIssued>>

(* --------------------------- specification ---------------------------- *)
InitEffects ==
  /\ img_display = NoImage
  /\ base_image_state = NoImage
  /\ layers_state = <<>>
  /\ next_layer_id = 1
  /\ history = <<>>
  /\ preview = NoImage
  /\ status = <<>>

InitGhost ==
  /\ trail = <<>>
  /\ before = <<>>
  /\ runAdds = 0
  /\ lastIssued = 0
  /\ others = 0

InitSocial ==
  /\ social_post_base_image = NoImage
  /\ social_layers_state = <<>>
  /\ social_next_layer_id = 1
  /\ social_history = <<>>
  /\ logo_image_state = NoImage
  /\ template_selection_state = NoTemplate
  /\ post_preview_img = NoImage
  /\ post_status_text = <<>>

\* no renderer run outside a handler
InitRenderIdle ==
  /\ r_base = NoImage
  /\ r_layers = <<>>
  /\ r_out = NoImage

\* no gradient is being built
InitGradientIdle ==
  /\ g_colors = <<>>
  /\ g_height = 0
  /\ g_rows = <<>>

\* no call of generate_image_with_auth is in flight and no user row is watched
InitUsageIdle ==
  /\ users = <<>>
  /\ usage_logs = 0
  /\ calls = <<>>
  /\ replicate_ready = FALSE

\* the two editors share no component: a behaviour works in one of them
Init ==
  /\ tab \in {"effects", "social"}
  /\ InitEffects
  /\ InitSocial
  /\ InitGhost
  /\ InitGradientIdle
  /\ InitUsageIdle
  /\ InitRenderIdle

\* choices of the social tab's widgets, read by a handler when it runs
PostSizeChoices == {"Instagram Square (1:1)", "Facebook Post (1.91:1)"}
BgColors == {White, <<"#", "G", "G">>}
TemplatePaths == {"templates/soft.png", "templates/gone.png"}
Logos == {LogoImage("RGB", 400, 200, <<0, 128, 0, 255>>)}
LogoSizes == {"Medium (100px)"}

Upload ==
  /\ tab = "effects"
  /\ UNCHANGED socialVars
  /\ \E image \in Uploads : process_uploaded_image(image)
  /\ UNCHANGED <<tab, others, renderVars, gradientVars, usageVars>>

LoadImage ==
  /\ tab = "effects"
  /\ UNCHANGED socialVars
  /\ load_image
  /\ UNCHANGED <<tab, others, renderVars, gradientVars, usageVars>>

AddText ==
  /\ tab = "effects"
  /\ UNCHANGED socialVars
  /\ \E txt \in Texts, tcol \in TextColors :
       /\ AddTextAccepts(txt) => next_layer_id < MaxId
       /\ add_text(txt, "Abhaya", 80, tcol, Black, 0, FALSE, 20, TRUE, 100,
                   100, 100, "normal")
  /\ UNCHANGED <<tab, others, renderVars, gradientVars, usageVars>>

RemoveLast ==
  /\ tab = "effects"
  /\ UNCHANGED socialVars
  /\ remove_last
  /\ UNCHANGED <<tab, others, renderVars, gradientVars, usageVars>>

Undo ==
  /\ tab = "effects"
  /\ UNCHANGED socialVars
  /\ undo
  /\ UNCHANGED <<tab, others, renderVars, gradientVars, usageVars>>

ClearAll ==
  /\ tab = "effects"
  /\ UNCHANGED socialVars
  /\ clear_all_layers
  /\ UNCHANGED <<tab, others, renderVars, gradientVars, usageVars>>

CreateCanvasColor ==
  /\ tab = "social"
  /\ \E size_key \in PostSizeChoices, bg_color \in BgColors :
       create_base_canvas_color(size_key, bg_color)
  /\ UNCHANGED <<tab, others, effectsVars, renderVars, gradientVars, usageVars>>

SelectTemplate ==
  /\ tab = "social"
  /\ \E size_key \in PostSizeChoices, template_path \in TemplatePaths :
       /\ template_path # template_selection_state
       /\ create_base_canvas_template(size_key, template_path)
  /\ UNCHANGED <<tab, others, effectsVars, renderVars, gradientVars, usageVars>>

StoreLogo ==
  /\ tab = "social"
  /\ \E img \in Logos : store_logo(img)
  /\ UNCHANGED <<tab, others, effectsVars, renderVars, gradientVars, usageVars>>

AddHeading ==
  /\ tab = "social"
  /\ \E head_txt \in Texts, size_key \in PostSizeChoices :
       /\ Strip(head_txt) # <<>> => social_next_layer_id < MaxId
       /\ add_heading_element(head_txt, "Abhaya", 60, Red, "normal", "Custom", 100, 100,
                              size_key, White, "Solid Color")
  /\ UNCHANGED <<tab, others, effectsVars, renderVars, gradientVars, usageVars>>

AddParagraph ==
  /\ tab = "social"
  /\ \E para_txt \in Texts, size_key \in PostSizeChoices :
       /\ Strip(para_txt) # <<>> => social_next_layer_id < MaxId
       /\ add_paragraph_element(para_txt, "Abhaya", 30, Blue, "Left", "normal", "Custom",
                                103, 103, size_key, White, "Solid Color")
  /\ UNCHANGED <<tab, others, effectsVars, renderVars, gradientVars, usageVars>>

AddLogo ==
  /\ tab = "social"
  /\ \E size_str \in LogoSizes, size_key \in PostSizeChoices :
       /\ logo_image_state # NoImage => social_next_layer_id < MaxId
       /\ add_logo_element(size_str, 100, 100, size_key, White, "Solid Color")
  /\ UNCHANGED <<tab, others, effectsVars, renderVars, gradientVars, usageVars>>

SocialRemoveLast ==
  /\ tab = "social"
  /\ \E size_key \in PostSizeChoices :
       remove_last_social_layer(size_key, White, "Solid Color")
  /\ UNCHANGED <<tab, others, effectsVars, renderVars, gradientVars, usageVars>>

SocialClearAll ==
  /\ tab = "social"
  /\ \E size_key \in PostSizeChoices :
       clear_all_social_layers(size_key, White, "Solid Color")
  /\ UNCHANGED <<tab, others, effectsVars, renderVars, gradientVars, usageVars>>

Next ==
  \/ CreateCanvasColor
  \/ SelectTemplate
  \/ StoreLogo
  \/ AddHeading
  \/ AddParagraph
  \/ AddLogo
  \/ SocialRemoveLast
  \/ SocialClearAll
  \/ Upload
  \/ LoadImage
  \/ AddText
  \/ RemoveLast
  \/ Undo
  \/ ClearAll

Spec == Init /\ [][Next]_vars

(* ------------------------ long runs of adds --------------------------- *)
\* the text-effects editor with an image uploaded and loaded
InitLong ==
  /\ tab = "effects"
  /\ img_display = ImgA
  /\ base_image_state = ImgA
  /\ layers_state = <<>>
  /\ next_layer_id = 1
  /\ history = <<>>
  /\ preview = ImgA
  /\ status = <<"Image loaded! Click on image to position text">>
  /\ InitSocial
  /\ trail = <<"load">>
  /\ before = <<>>
  /\ runAdds = 0
  /\ lastIssued = 0
  /\ others = 0
  /\ InitRenderIdle
  /\ InitGradientIdle
  /\ InitUsageIdle

LongAdd ==
  /\ \E txt \in Texts :
       /\ IF AddTextAccepts(txt)
            THEN next_layer_id < MaxIdLong /\ others' = others
            ELSE others < MaxOther /\ others' = others + 1
       /\ add_text(txt, "Abhaya", 80, Red, Black, 0, FALSE, 20, TRUE, 100,
                   100, 100, "normal")
  /\ UNCHANGED <<tab, socialVars, renderVars, gradientVars, usageVars>>

LongRemoveLast ==
  /\ others < MaxOther
  /\ others' = others + 1
  /\ remove_last
  /\ UNCHANGED <<tab, socialVars, renderVars, gradientVars, usageVars>>

LongUndo ==
  /\ others < MaxOther
  /\ others' = others + 1
  /\ undo
  /\ UNCHANGED <<tab, socialVars, renderVars, gradientVars, usageVars>>

LongClearAll ==
  /\ others < MaxOther
  /\ others' = others + 1
  /\ clear_all_layers
  /\ UNCHANGED <<tab, socialVars, renderVars, gradientVars, usageVars>>

NextLong ==
  \/ LongAdd
  \/ LongRemoveLast
  \/ LongUndo
  \/ LongClearAll

SpecLong == InitLong /\ [][NextLong]_vars

(* --------------------------- renderer runs ---------------------------- *)
\* base rasters: none, an opaque RGB raster, a translucent RGBA raster
RBases == {NoImage, ImgA, NewImage("RGBA", 200, 200, <<0, 0, 255, 128>>)}

BadColor == <<"#", "G", "G">>

RText(text_color, x, outline_width, outline_color, font_size, visible, effect_type) ==
  TextLayer(0, <<"a">>, "Abhaya", font_size, text_color, x, x, outline_width,
            outline_color, FALSE, 20, FALSE, 100, visible, effect_type)

\* text layers: plain red and blue on one anchor, plain on another anchor,
\* outlined, hidden, unparsable colours, unloadable font, translucent effect,
\* opacity slider at 0, "Add Shadow" ticked, "Add Glow" ticked
RTextLayers ==
  { RText(Red, 100, 0, Black, 80, TRUE, "normal"),
    RText(Blue, 100, 0, Black, 80, TRUE, "normal"),
    RText(Blue, 103, 0, Black, 80, TRUE, "normal"),
    RText(Blue, 100, 3, Black, 80, TRUE, "normal"),
    RText(Red, 100, 0, Black, 80, FALSE, "normal"),
    RText(BadColor, 100, 0, Black, 80, TRUE, "normal"),
    RText(Red, 100, 3, BadColor, 80, TRUE, "3d"),
    RText(Red, 100, 0, Black, 0, TRUE, "normal"),
    RText(Red, 100, 0, Blue, 80, TRUE, "neon"),
    [RText(Red, 100, 0, Black, 80, TRUE, "normal") EXCEPT !.opacity = 0],
    [RText(Red, 100, 0, Black, 80, TRUE, "normal") EXCEPT !.add_shadow = TRUE],
    [RText(Red, 100, 0, Blue, 80, TRUE, "normal") EXCEPT !.add_glow = TRUE] }

RSocial(type, properties, visible) ==
  [SocialLayer(0, type, properties) EXCEPT !.visible = visible]

RProps(text, color, is_heading, effect_type, outline_color, x) ==
  [text |-> text, font_key |-> "Abhaya", font_size |-> 60, color |-> color,
   is_heading |-> is_heading, effect_type |-> effect_type, x |-> x, y |-> x,
   outline_color |-> outline_color]

RLogoProps ==
  [logo_obj |-> LogoImage("RGB", 400, 200, <<0, 128, 0, 255>>),
   size_str |-> "Medium (100px)", x |-> 100, y |-> 100]

\* social layers: heading, paragraphs of one and two lines, logo, hidden,
\* unparsable colours, a heading of two lines, translucent effect
RSocialLayers ==
  { RSocial("text", RProps(<<"a">>, Red, TRUE, "normal", Black, 100), TRUE),
    RSocial("text", RProps(<<"a">>, Blue, FALSE, "normal", Black, 100), TRUE),
    RSocial("text", RProps(<<"a", "\n", "b">>, Blue, FALSE, "normal", Black, 103), TRUE),
    RSocial("logo", RLogoProps, TRUE),
    RSocial("text", RProps(<<"a">>, Red, TRUE, "normal", Black, 100), FALSE),
    RSocial("logo", RLogoProps, FALSE),
    RSocial("text", RProps(<<"a">>, BadColor, TRUE, "normal", Black, 100), TRUE),
    RSocial("text", RProps(<<"a", "\n", "b">>, Red, FALSE, "3d", BadColor, 100), TRUE),
    RSocial("text", RProps(<<"a", "\n", "b">>, Red, TRUE, "normal", Black, 100), TRUE),
    RSocial("text", RProps(<<"a">>, Red, TRUE, "neon", Blue, 100), TRUE) }

ListsOf(S) == UNION {[1..n -> S] : n \in 0..MaxRenderLayers}

PendingImage == [mode |-> "Pending"]

InitRender ==
  /\ tab \in {"render_text", "render_social"}
  /\ InitEffects
  /\ InitSocial
  /\ InitGhost
  /\ InitGradientIdle
  /\ InitUsageIdle
  /\ r_base \in RBases
  /\ r_layers \in ListsOf(IF tab = "render_text" THEN RTextLayers ELSE RSocialLayers)
  /\ r_out = PendingImage

RSizeKey == "Instagram Square (1:1)"

\* render_social_post as the social tab calls it on a solid white background
RenderSocialPost(layers, base_image) ==
  render_social_post(RSizeKey, White, NoTemplate, "Solid Color", layers, base_image)

RenderAll ==
  /\ tab = "render_text"
  /\ r_out = PendingImage
  /\ r_out' = render_all_layers(r_base, r_layers)
  /\ UNCHANGED <<tab, effectsVars, socialVars, ghostVars, others, r_base, r_layers,
               gradientVars, usageVars>>

RenderSocial ==
  /\ tab = "render_social"
  /\ r_out = PendingImage
  /\ r_out' = RenderSocialPost(r_layers, r_base)
  /\ UNCHANGED <<tab, effectsVars, socialVars, ghostVars, others, r_base, r_layers,
               gradientVars, usageVars>>

NextRender ==
  \/ RenderAll
  \/ RenderSocial

SpecRender == InitRender /\ [][NextRender]_vars

(* --------------------------- gradient runs --------------------------- *)
\* the tallest glyph box a gradient is built for
MaxGlyphHeight == 7

Grey == <<"#", "1", "D", "1", "D", "1", "D">>

GradientColors == {Red, Blue, White, Grey}

\* apply_gradient_effect is about to be called with two colours on a glyph
\* whose bounding box has height text_height
InitGradient ==
  /\ tab = "gradient"
  /\ InitEffects
  /\ InitSocial
  /\ InitGhost
  /\ InitRenderIdle
  /\ InitUsageIdle
  /\ g_colors \in GradientColors \X GradientColors
  /\ g_height \in 1..MaxGlyphHeight
  /\ g_rows = <<>>

\* the for loop of apply_gradient_effect: row i is filled with (r, g, b)
BuildGradient ==
  /\ tab = "gradient"
  /\ g_rows = <<>>
  /\ g_rows' = [i \in 1..g_height |->
                  GradientRow(ParseHex(g_colors[1]), ParseHex(g_colors[2]),
                              i - 1, g_height)]
  /\ UNCHANGED <<tab, effectsVars, socialVars, ghostVars, others, renderVars,
                 g_colors, g_height, usageVars>>

NextGradient == BuildGradient

SpecGradient == InitGradient /\ [][NextGradient]_vars

(* ---------------------------- usage runs ------------------------------ *)
\* the calls of generate_image_with_auth that run side by side
MaxCalls == 2

\* the credits the user has left when the calls start, at most
MaxHeadroom == 1

Plans == {"free", "starter", "popular", "premium", "trial"}

\* limits.get(plan, 5)
PlanLimit(plan) ==
  IF plan = "free" THEN 5
  ELSE IF plan = "starter" THEN 25
  ELSE IF plan = "popular" THEN 60
  ELSE IF plan = "premium" THEN 200
  ELSE 5

\* get_remaining_generations(plan, used)
get_remaining_generations(plan, used) == Max(0, PlanLimit(plan) - used)

Callers == 1..MaxCalls

\* a call that has not started: user_info is the caller's user_state
NewCall(user_info) ==
  [pc |-> "start", user_info |-> user_info, monthly_gens |-> 0, plan |-> "",
   charged |-> FALSE, image |-> FALSE, msg |-> ""]

\* one user row, some credits left or none, and calls of sessions that are
\* logged in as that user (user_info "user") or not logged in ("None")
InitUsage ==
  /\ tab = "usage"
  /\ InitEffects
  /\ InitSocial
  /\ InitGhost
  /\ InitRenderIdle
  /\ InitGradientIdle
  /\ \E plan \in Plans : \E left \in 0..MaxHeadroom :
       users = [plan |-> plan, monthly_generations |-> PlanLimit(plan) - left,
                total_generations |-> PlanLimit(plan) - left]
  /\ usage_logs = 0
  /\ calls \in [Callers -> {NewCall(u) : u \in {"user", "None"}}]
  /\ replicate_ready \in BOOLEAN

Return(c, image, msg) ==
  calls' = [calls EXCEPT ![c].pc = "done", ![c].image = image, ![c].msg = msg]

usageFrame ==
  UNCHANGED <<tab, effectsVars, socialVars, ghostVars, others, renderVars, gradientVars,
              replicate_ready>>

\* generate_image_with_auth: if not user_info: return None, "Please login first"
Enter(c) ==
  /\ tab = "usage"
  /\ calls[c].pc = "start"
  /\ IF calls[c].user_info = "None"
       THEN Return(c, FALSE, "Please login first")
       ELSE calls' = [calls EXCEPT ![c].pc = "select"]
  /\ UNCHANGED <<users, usage_logs>>
  /\ usageFrame

\* increment_usage up to the UPDATE: connect, SELECT monthly_generations and
\* plan, and the check of what remains, on the values this call has read
\* (the row of a logged-in user exists)
SelectUsage(c) ==
  /\ tab = "usage"
  /\ calls[c].pc = "select"
  /\ \E connected \in BOOLEAN :
       IF ~connected THEN Return(c, FALSE, "Database not available")
       ELSE IF get_remaining_generations(users.plan, users.monthly_generations) <= 0
         THEN Return(c, FALSE, "Monthly limit reached")
       ELSE calls' = [calls EXCEPT ![c].pc = "update",
                                   ![c].monthly_gens = users.monthly_generations,
                                   ![c].plan = users.plan]
  /\ UNCHANGED <<users, usage_logs>>
  /\ usageFrame

\* the rest of increment_usage: UPDATE users SET monthly_generations =
\* monthly_generations + 1, total_generations = total_generations + 1, the
\* INSERT into usage_logs and the commit, or an exception before the commit
UpdateUsage(c) ==
  /\ tab = "usage"
  /\ calls[c].pc = "update"
  /\ \E committed \in BOOLEAN :
       IF committed
         THEN /\ users' = [users EXCEPT
                            !.monthly_generations = users.monthly_generations + 1,
                            !.total_generations = users.total_generations + 1]
              /\ usage_logs' = usage_logs + 1
              /\ calls' = [calls EXCEPT ![c].pc = "generate", ![c].charged = TRUE,
                                        ![c].msg = "Generated"]
       ELSE /\ UNCHANGED <<users, usage_logs>>
            /\ Return(c, FALSE, "Error")
  /\ usageFrame

\* generate_image_with_auth after increment_usage has answered True: the
\* check of the Replicate configuration, then replicate.run and the download
RunReplicate(c) ==
  /\ tab = "usage"
  /\ calls[c].pc = "generate"
  /\ IF ~replicate_ready
       THEN Return(c, FALSE, "AI generation not available")
       ELSE \E generated \in BOOLEAN :
              IF generated THEN Return(c, TRUE, calls[c].msg)
              ELSE Return(c, FALSE, "Generation error")
  /\ UNCHANGED <<users, usage_logs>>
  /\ usageFrame

NextUsage ==
  \/ \E c \in Callers : Enter(c)
  \/ \E c \in Callers : SelectUsage(c)
  \/ \E c \in Callers : UpdateUsage(c)
  \/ \E c \in Callers : RunReplicate(c)

SpecUsage == InitUsage /\ [][NextUsage]_vars

(* ------------------- canvases and logos, social tab ------------------- *)
\* gallery entries: a template that decodes, one deleted since start-up, one
\* that does not decode
AllTemplatePaths == {"templates/soft.png", "templates/gone.png", "templates/broken.png"}

\* values of the background colour input: well-formed, None, no '#', not hex
CanvasColors == {White, Red, NoneValue, <<"r", "e", "d">>, BadColor}

\* logo uploads larger and smaller than every target size
CanvasLogos ==
  {LogoImage("RGB", 400, 200, <<0, 128, 0, 255>>), LogoImage("RGB", 40, 20, <<0, 128, 0, 255>>)}

AllLogoSizes == {"Small (50px)", "Medium (100px)", "Large (150px)"}

\* logo positions clicked on the preview: inside every canvas, and one
\* clicked on the wider canvas that lies right of the narrower one
LogoXs == {100, 1150}

InitCanvas ==
  /\ tab = "canvas"
  /\ InitEffects
  /\ InitSocial
  /\ InitGhost
  /\ InitGradientIdle
  /\ InitUsageIdle
  /\ InitRenderIdle

CanvasColor ==
  /\ tab = "canvas"
  /\ \E size_key \in PostSizeChoices, bg_color \in CanvasColors :
       create_base_canvas_color(size_key, bg_color)
  /\ UNCHANGED <<tab, others, effectsVars, renderVars, gradientVars, usageVars>>

CanvasTemplate ==
  /\ tab = "canvas"
  /\ \E size_key \in PostSizeChoices, template_path \in AllTemplatePaths :
       /\ template_path # template_selection_state
       /\ create_base_canvas_template(size_key, template_path)
  /\ UNCHANGED <<tab, others, effectsVars, renderVars, gradientVars, usageVars>>

CanvasStoreLogo ==
  /\ tab = "canvas"
  /\ \E img \in CanvasLogos : store_logo(img)
  /\ UNCHANGED <<tab, others, effectsVars, renderVars, gradientVars, usageVars>>

CanvasAddHeading ==
  /\ tab = "canvas"
  /\ social_next_layer_id < MaxCanvasId
  /\ \E size_key \in PostSizeChoices :
       add_heading_element(<<"a">>, "Abhaya", 60, Red, "normal", "Custom", 100, 100,
                           size_key, White, "Solid Color")
  /\ UNCHANGED <<tab, others, effectsVars, renderVars, gradientVars, usageVars>>

CanvasAddLogo ==
  /\ tab = "canvas"
  /\ \E size_str \in AllLogoSizes, x \in LogoXs, size_key \in PostSizeChoices :
       /\ logo_image_state # NoImage => social_next_layer_id < MaxCanvasId
       /\ add_logo_element(size_str, x, 100, size_key, White, "Solid Color")
  /\ UNCHANGED <<tab, others, effectsVars, renderVars, gradientVars, usageVars>>

NextCanvas ==
  \/ CanvasColor
  \/ CanvasTemplate
  \/ CanvasStoreLogo
  \/ CanvasAddHeading
  \/ CanvasAddLogo

SpecCanvas == InitCanvas /\ [][NextCanvas]_vars

(* ------------------------------ claims -------------------------------- *)
LastOp == IF trail = <<>> THEN "none" ELSE trail[Len(trail)]

\* C1: the history stack never holds more than 20 snapshots; after 20 or
\* more successive successful adds (25 among them) it holds exactly 20, the
\* 20 most recent pre-mutation lists in push order: snapshot i is the
\* current list without its last 21 - i layers.
C1_HistoryBound ==
  /\ Len(history) <= HistoryCap
  /\ runAdds >= HistoryCap =>
       /\ Len(history) = 20
       /\ \A i \in 1..20 :
            history[i] = SubSeq(layers_state, 1, Len(layers_state) - 21 + i)

\* 25 successive successful adds have run
C1_Witness == runAdds = 25 /\ Len(layers_state) = 25 /\ history[1] # <<>>

\* C2: an undo that immediately follows a successful add or a successful
\* remove_last leaves the layer list as it was before that add or removal.
C2_UndoRoundTrip ==
  [][(LastOp \in {"add", "remove_last"} /\ Undo) => layers_state' = before]_vars

\* an add onto a non-empty list has been undone
C2_Witness == trail = <<"add", "undo">> /\ layers_state # <<>>

\* C3: undo on an empty history and remove_last on an empty list change
\* neither the layer list nor the history nor the next-id counter, and
\* return a status message.
C3_EmptyNoOps ==
  [][ /\ (Undo /\ history = <<>>) =>
           /\ UNCHANGED <<layers_state, history, next_layer_id>>
           /\ status' = <<"Nothing to undo">>
      /\ (RemoveLast /\ layers_state = <<>>) =>
           /\ UNCHANGED <<layers_state, history, next_layer_id>>
           /\ status' = <<"No layers">>
      /\ (SocialRemoveLast /\ social_layers_state = <<>>) =>
           /\ UNCHANGED <<social_layers_state, social_history, social_next_layer_id>>
           /\ post_status_text' = <<"No elements to remove">> ]_vars

\* undo found nothing to undo after ids had been handed out
C3_Witness == LastOp = "undo_noop" /\ status = <<"Nothing to undo">> /\ next_layer_id > 1

\* C4: every add is rejected when no canvas exists, when its text is blank,
\* or (logo) when no logo image is present, and a rejected add leaves the
\* layer list, the history and the next-id counter unchanged.
C4_AddsValidated ==
  [][ /\ (AddText /\ base_image_state = NoImage) =>
           UNCHANGED <<layers_state, history, next_layer_id>>
      /\ (AddText /\ layers_state' # layers_state) =>
           Strip(layers_state'[Len(layers_state')].text) # <<>>
      /\ (AddText /\ LastOp' = "add_rejected") =>
           UNCHANGED <<layers_state, history, next_layer_id>>
      /\ ((AddHeading \/ AddParagraph \/ AddLogo) /\ social_post_base_image = NoImage) =>
           UNCHANGED <<social_layers_state, social_history, social_next_layer_id>>
      /\ ((AddHeading \/ AddParagraph) /\ social_layers_state' # social_layers_state) =>
           Strip(social_layers_state'[Len(social_layers_state')].properties.text) # <<>>
      /\ (AddLogo /\ logo_image_state = NoImage) =>
           UNCHANGED <<social_layers_state, social_history, social_next_layer_id>>
      /\ ((AddHeading \/ AddParagraph \/ AddLogo) /\ LastOp' = "add_rejected") =>
           UNCHANGED <<social_layers_state, social_history, social_next_layer_id>> ]_vars

IdsIncrease(layers) ==
  \A i, j \in DOMAIN layers : i < j => layers[i].id < layers[j].id

IdsBelow(layers, next_id) == \A i \in DOMAIN layers : layers[i].id < next_id

\* C5: in both editors the ids of the live list strictly increase with the
\* list index, and the next-id counter exceeds every id of the live list and
\* of every history snapshot.
C5_IdsOrdered ==
  /\ IdsIncrease(layers_state)
  /\ IdsBelow(layers_state, next_layer_id)
  /\ \A k \in DOMAIN history : IdsBelow(history[k], next_layer_id)
  /\ IdsIncrease(social_layers_state)
  /\ IdsBelow(social_layers_state, social_next_layer_id)
  /\ \A k \in DOMAIN social_history : IdsBelow(social_history[k], social_next_layer_id)

\* a snapshot that holds layers lies under a non-empty live list
C5_Witness ==
  /\ layers_state # <<>>
  /\ \E k \in DOMAIN history : Len(history[k]) > Len(layers_state)

\* C6: on one canvas the id the next add hands out exceeds every id handed
\* out before, across add, remove_last, undo and clear_all.
C6_IdsNeverReused ==
  /\ tab = "effects" => next_layer_id > lastIssued
  /\ tab = "social" => social_next_layer_id > lastIssued

\* C7: right after the canvas of an editor was replaced, that editor's layer
\* list and history stack are empty.
C7_CanvasReplacedClears ==
  /\ (tab = "effects" /\ LastOp = "load") => layers_state = <<>> /\ history = <<>>
  /\ (tab = "social" /\ LastOp \in {"create_color", "create_template"}) =>
       social_layers_state = <<>> /\ social_history = <<>>

RemoveAt(layers, i) == SubSeq(layers, 1, i - 1) \o SubSeq(layers, i + 1, Len(layers))

Reversed(layers) == [i \in 1..Len(layers) |-> layers[Len(layers) + 1 - i]]

\* the renderer of the run, on the run's base raster
RenderOf(layers) ==
  IF tab = "render_text" THEN render_all_layers(r_base, layers)
  ELSE RenderSocialPost(layers, r_base)

Rendered == tab \in {"render_text", "render_social"} /\ r_out # PendingImage

\* a transparent raster of the size the renderer of the run draws on
BlankCanvas ==
  IF r_base # NoImage THEN NewImage("RGBA", r_base.w, r_base.h, Transparent)
  ELSE NewImage("RGBA", post_sizes[RSizeKey][1], post_sizes[RSizeKey][2], Transparent)

\* rendering the layer raises
LayerFails(layer) ==
  IF tab = "render_text" THEN ~LayerStamps(layer).ok
  ELSE layer.type = "text" /\ ~render_social_text_layer(BlankCanvas, layer.properties).ok

\* the pixels the layer draws when it is drawn alone on a transparent raster
Alone(layer) ==
  IF tab = "render_text" THEN LayerBuffer(BlankCanvas, layer).px
  ELSE DrawSocialLayer(BlankCanvas, post_sizes[RSizeKey][1], post_sizes[RSizeKey][2],
                       [layer EXCEPT !.visible = TRUE]).px

\* the layers of the list that are drawn and leave ink at p
Covering(layers, p) ==
  {i \in DOMAIN layers :
     layers[i].visible /\ ~LayerFails(layers[i]) /\ Alone(layers[i])[p][4] > 0}

OpaqueAt(layers, p) ==
  /\ Covering(layers, p) # {}
  /\ \A i \in Covering(layers, p) : Alone(layers[i])[p][4] = 255

\* C8: in both renderers the output for a list that holds a hidden layer is
\* the output (pixels and raster mode) for the list without that layer, the
\* list that becomes empty included.
C8_HiddenIsAbsent ==
  Rendered =>
    \A i \in DOMAIN r_layers :
      ~r_layers[i].visible => r_out = RenderOf(RemoveAt(r_layers, i))

C10_FailureIsolated ==
  Rendered =>
    \A i \in DOMAIN r_layers :
      (r_layers[i].visible /\ LayerFails(r_layers[i])) =>
        r_out = RenderOf(RemoveAt(r_layers, i))

\* the size of the raster the renderer of the run draws on
CanvasSize ==
  IF r_base # NoImage THEN <<r_base.w, r_base.h>> ELSE post_sizes[RSizeKey]

\* C11: for every base raster, with or without an alpha channel, and every
\* layer list (empty, all hidden and all failing lists included) the renderer
\* returns a raster without alpha channel, fully opaque, of the canvas size.
C11_RenderIsOpaque ==
  (Rendered /\ (tab = "render_text" => r_base # NoImage)) =>
    /\ r_out.mode = "RGB"
    /\ <<r_out.w, r_out.h>> = CanvasSize
    /\ \A p \in Probes : r_out.px[p][4] = 255

\* "#RRGGBB"
WellFormed(color) ==
  /\ color # NoneValue
  /\ Len(color) = 7
  /\ color[1] = "#"
  /\ \A i \in 2..7 : IsHex(color[i])

\* the colour string a layer is filled with
FillColour(layer) ==
  IF tab = "render_text" THEN layer.text_color ELSE layer.properties.color

\* a visible single-line plain text layer whose font loads
PlainText(layer) ==
  /\ layer.visible
  /\ IF tab = "render_text"
       THEN layer.effect_type = "normal" /\ FontLoads(layer.font_size)
     ELSE /\ layer.type = "text"
          /\ layer.properties.effect_type = "normal"
          /\ Len(SplitLines(layer.properties.text)) = 1

Anchor(layer) ==
  IF tab = "render_text" THEN <<layer.x, layer.y>>
  ELSE <<layer.properties.x, layer.properties.y>>

\* C12: a plain text layer rendered alone is drawn at its anchor in the
\* exact (r, g, b) of a well-formed "#RRGGBB" colour, and in the fallback
\* black (0, 0, 0) when its colour string is malformed; it is never dropped.
C12_ColourFallback ==
  (Rendered /\ (tab = "render_text" => r_base # NoImage) /\ Len(r_layers) = 1) =>
    (PlainText(r_layers[1]) =>
       r_out.px[Anchor(r_layers[1])] =
         IF WellFormed(FillColour(r_layers[1]))
           THEN Opaque(ParseHex(FillColour(r_layers[1])))
         ELSE <<0, 0, 0, 255>>)

\* C13: creating a canvas from a template that does not resolve (file gone
\* or not decodable) makes the canvas the all-white raster of the selected
\* post size, reports the failure in the status, and resets layer list,
\* next-id counter and history as a successful create does.
C13_TemplateFallback ==
  [][\A size_key \in PostSizeChoices, template_path \in AllTemplatePaths :
       (/\ tab = "canvas"
        /\ TemplateRaster(template_path, post_sizes[size_key][1],
                          post_sizes[size_key][2]) = NoImage
        /\ create_base_canvas_template(size_key, template_path)) =>
         /\ social_post_base_image' =
              NewImage("RGB", post_sizes[size_key][1], post_sizes[size_key][2],
                       <<255, 255, 255, 255>>)
         /\ post_status_text' \in {<<"Template not found. Using white background.">>,
                                   <<"Error loading template. Using white background.">>}
         /\ social_layers_state' = <<>>
         /\ social_next_layer_id' = 1
         /\ social_history' = <<>>]_vars

\* a template that does not decode was selected over a canvas with a layer
C13_Witness ==
  /\ tab = "canvas"
  /\ LastOp = "create_template"
  /\ template_selection_state = "templates/broken.png"
  /\ before # <<>>
  /\ social_layers_state = <<>>
  /\ social_post_base_image.mode = "RGB"

\* isinstance(bg_color, str) with '#' first and three or six hex digits after
ValidSolid(bg_color) ==
  /\ IsHashString(bg_color)
  /\ Len(bg_color) \in {4, 7}
  /\ \A i \in 2..Len(bg_color) : IsHex(bg_color[i])

\* C14: creating a solid-colour canvas always leaves a canvas of the
\* requested size, filled with the colour when it is valid and with the
\* fallback black (0, 0, 0) when it is not.
C14_InvalidSolidColour ==
  [][\A size_key \in PostSizeChoices, bg_color \in CanvasColors :
       (tab = "canvas" /\ create_base_canvas_color(size_key, bg_color)) =>
         social_post_base_image' =
           NewImage("RGB", post_sizes[size_key][1], post_sizes[size_key][2],
                    IF ValidSolid(bg_color) THEN GetRGB(bg_color)
                    ELSE <<0, 0, 0, 255>>)]_vars

LogoLayers == {i \in DOMAIN social_layers_state : social_layers_state[i].type = "logo"}

\* C15: every logo layer is stamped with its longest edge equal to the
\* target size and its aspect ratio kept up to rounding, whatever the size
\* of the source, sources smaller than the target included.
C15_LogoScaledToTarget ==
  tab = "canvas" =>
    \A i \in LogoLayers, size_key \in PostSizeChoices :
      LET props == social_layers_state[i].properties
          box   == LogoBox(post_sizes[size_key][1], post_sizes[size_key][2], props)
          t     == TargetSize(props.size_str)
      IN  /\ Max(box[3], box[4]) = t
          /\ box[3] * props.logo_obj.h - box[4] * props.logo_obj.w
               \in -Max(props.logo_obj.w, props.logo_obj.h)..Max(props.logo_obj.w, props.logo_obj.h)

\* C16: for every logo layer of an editor with a canvas, and every value of
\* the post-size selector the preview can be rendered under, the paste
\* rectangle lies inside the canvas raster.
C16_LogoInsideCanvas ==
  (tab = "canvas" /\ social_post_base_image # NoImage) =>
    \A i \in LogoLayers, size_key \in PostSizeChoices :
      LET box == LogoBox(post_sizes[size_key][1], post_sizes[size_key][2],
                         social_layers_state[i].properties)
      IN  /\ 0 <= box[1]
          /\ box[1] + box[3] <= social_post_base_image.w
          /\ 0 <= box[2]
          /\ box[2] + box[4] <= social_post_base_image.h

\* C17: clear_all leaves the empty layer list and pushes no history entry,
\* and an undo that follows it, directly or after handlers that changed
\* nothing, leaves the list empty.
C17_ClearAllNotUndoable ==
  [][ /\ ClearAll => (layers_state' = <<>> /\ Len(history') <= Len(history))
      /\ SocialClearAll =>
           (social_layers_state' = <<>> /\ social_history' = social_history)
      /\ (/\ Undo
          /\ \/ LastOp = "clear_all"
             \/ /\ Len(trail) = 2
                /\ trail[1] = "clear_all"
                /\ trail[2] \in {"undo_noop", "remove_noop", "add_rejected"}) =>
           layers_state' = <<>> ]_vars

\* layers were added, cleared, and an undo was tried
C17_Witness ==
  /\ tab = "effects"
  /\ trail = <<"clear_all", "undo_noop">>
  /\ lastIssued > 0
  /\ layers_state = <<>>

\* C18: a successful add_text on list L with next id n leaves L followed by
\* one new visible layer of id n, the layers of L unchanged, a snapshot equal
\* to L on top of the history, and the counter at n + 1.
C18_AddTextAppends ==
  [][(AddText /\ LastOp' = "add") =>
       /\ Len(layers_state') = Len(layers_state) + 1
       /\ SubSeq(layers_state', 1, Len(layers_state)) = layers_state
       /\ layers_state'[Len(layers_state')].id = next_layer_id
       /\ layers_state'[Len(layers_state')].visible
       /\ history' # <<>>
       /\ history'[Len(history')] = layers_state
       /\ next_layer_id' = next_layer_id + 1]_vars

\* a second layer was added on top of a first
C18_Witness ==
  /\ tab = "effects"
  /\ LastOp = "add"
  /\ Len(layers_state) = 2
  /\ before = SubSeq(layers_state, 1, 1)
  /\ history[Len(history)] = before

\* C19: after a logo was added in the social editor the top of the social
\* history is the layer list from before the add, and the logo is the last
\* layer under the id the counter held.
C19_AddLogoPushesHistory ==
  (/\ tab = "social"
   /\ LastOp = "add"
   /\ social_layers_state[Len(social_layers_state)].type = "logo") =>
    /\ social_layers_state[Len(social_layers_state)].id = social_next_layer_id - 1
    /\ SubSeq(social_layers_state, 1, Len(social_layers_state) - 1) = before
    /\ social_history # <<>>
    /\ social_history[Len(social_history)] = before

\* C20: remove_last on a non-empty list L, in either editor, pushes a
\* snapshot equal to L on top of that editor's history, leaves L without
\* its last layer, and leaves the next-id counter as it was.
C20_RemoveLastPushes ==
  [][ /\ (RemoveLast /\ layers_state # <<>>) =>
           /\ history' # <<>>
           /\ history'[Len(history')] = layers_state
           /\ layers_state' = SubSeq(layers_state, 1, Len(layers_state) - 1)
           /\ next_layer_id' = next_layer_id
      /\ (SocialRemoveLast /\ social_layers_state # <<>>) =>
           /\ social_history' # <<>>
           /\ social_history'[Len(social_history')] = social_layers_state
           /\ social_layers_state' =
                SubSeq(social_layers_state, 1, Len(social_layers_state) - 1)
           /\ social_next_layer_id' = social_next_layer_id ]_vars

\* C21: on an RGB base, the text-effects renderer's output for a list that
\* holds a layer of opacity 0 is the output for the list without that layer
\* (the layer's alpha is scaled by opacity / 100 before it is composited).
C21_OpacityScalesAlpha ==
  (Rendered /\ tab = "render_text" /\ r_base # NoImage) =>
    (r_base.mode = "RGB" =>
       \A i \in DOMAIN r_layers :
         r_layers[i].opacity = 0 => r_out = RenderOf(RemoveAt(r_layers, i)))

\* C22: right after a mutating operation of the text-effects editor (load,
\* successful add, remove-last, undo, clear-all) the preview is the composite
\* of the current base with the whole current layer list.
C22_PreviewShowsAllLayers ==
  (tab = "effects" /\ LastOp \in {"load", "add", "remove_last", "undo", "clear_all"}) =>
    preview = render_all_layers(base_image_state, layers_state)

\* b is a by one mutation of the list: one layer appended or the last dropped
OneMutation(a, b) ==
  \/ Len(b) = Len(a) + 1 /\ SubSeq(b, 1, Len(a)) = a
  \/ a # <<>> /\ b = SubSeq(a, 1, Len(a) - 1)

\* the stack holds, oldest first, the lists successive mutations started from
HistoryChain(hist) ==
  \A i \in 1..(Len(hist) - 1) : OneMutation(hist[i], hist[i + 1])

\* C24: in the text-effects editor the history stack changes only by a
\* successful add or remove-last (which push the list they started from), by
\* an undo (which restores the newest entry and removes exactly that entry,
\* pushing nothing) and by clear-all (which empties it); its entries are the
\* lists successive mutations started from, so k undos in a row walk back
\* over the last k mutations and there is no redo.
C24_HistoryDiscipline ==
  [][ tab = "effects" =>
        /\ (Undo /\ history # <<>>) =>
              /\ layers_state' = history[Len(history)]
              /\ history' = SubSeq(history, 1, Len(history) - 1)
              /\ next_layer_id' = next_layer_id
        /\ (Undo /\ history = <<>>) =>
              layers_state' = layers_state /\ history' = history
        /\ history' # history =>
              \/ /\ AddText \/ RemoveLast
                 /\ layers_state' # layers_state
                 /\ history' = LastN(Append(history, layers_state), HistoryCap)
              \/ Undo /\ Len(history') = Len(history) - 1
              \/ ClearAll /\ history' = <<>>
        /\ HistoryChain(history) => HistoryChain(history') ]_vars

\* two adds on a loaded image and two undos in a row: the list is the empty
\* list the first add started from and the stack is empty again
C24_Witness ==
  /\ tab = "effects"
  /\ trail = <<"undo", "undo">>
  /\ next_layer_id = 3
  /\ layers_state = <<>>
  /\ history = <<>>

\* the offsets of the stamps with index in ks
OffsetsOf(st, ks) == {<<st[k].dx, st[k].dy>> : k \in ks}

\* C25: the stamps of a normal-effect text layer that is drawn come in the
\* order glow, shadow, outline, fill: the last stamp is the fill at the
\* anchor in the text colour; with outline width w > 0 the 8 stamps before it
\* are at (+-w, 0), (0, +-w), (+-w, +-w) in the outline colour; with
\* "Add Shadow" black stamps at (d, d) for d = 1..shadow_blur come before
\* those; with "Add Glow" a stamp in the outline colour comes before those;
\* without glow, shadow and outline the fill is the only stamp.
C25_NormalStampOrder ==
  (Rendered /\ tab = "render_text") =>
    \A i \in DOMAIN r_layers :
      LET layer == r_layers[i]
          st    == LayerStamps(layer).stamps
          w     == layer.outline_width
          n     == Len(st)
          ring  == IF w > 0 THEN 8 ELSE 0
          deep  == IF layer.add_shadow THEN layer.shadow_blur ELSE 0
      IN  (layer.effect_type = "normal" /\ LayerStamps(layer).ok) =>
            /\ n >= 1 + ring + deep
            /\ st[n] = Stamp(0, 0, Opaque(ParseHex(layer.text_color)))
            /\ w > 0 =>
                  /\ OffsetsOf(st, (n - 8)..(n - 1)) =
                       {<<-w, -w>>, <<-w, 0>>, <<-w, w>>, <<0, -w>>,
                        <<0, w>>, <<w, -w>>, <<w, 0>>, <<w, w>>}
                  /\ \A k \in (n - 8)..(n - 1) :
                       st[k].fill = Opaque(ParseHex(layer.outline_color))
            /\ layer.add_shadow =>
                  /\ OffsetsOf(st, (n - ring - deep)..(n - ring - 1)) =
                       {<<d, d>> : d \in 1..deep}
                  /\ \A k \in (n - ring - deep)..(n - ring - 1) :
                       SubSeq(st[k].fill, 1, 3) = <<0, 0, 0>>
            /\ layer.add_glow =>
                  /\ n > 1 + ring + deep
                  /\ SubSeq(st[1].fill, 1, 3) = ParseHex(layer.outline_color)
            /\ (~layer.add_glow /\ ~layer.add_shadow) => n = 1 + ring

\* a visible plain text layer of the social renderer with a line break
\* in its text and a well-formed colour
BrokenText(layer) ==
  /\ layer.visible
  /\ layer.type = "text"
  /\ layer.properties.effect_type = "normal"
  /\ Len(SplitLines(layer.properties.text)) > 1
  /\ WellFormed(layer.properties.color)

\* C26: a text layer with line breaks, heading or paragraph, is split into
\* its lines and line 0 is stamped at the layer's own (x, y): rendered alone,
\* the layer leaves its colour at its anchor.
C26_LinesStampedFromAnchor ==
  (Rendered /\ tab = "render_social" /\ Len(r_layers) = 1) =>
    (BrokenText(r_layers[1]) =>
       r_out.px[Anchor(r_layers[1])] = Opaque(ParseHex(r_layers[1].properties.color)))

Dist(a, b) == IF a < b THEN b - a ELSE a - b

ColourDist(u, v) == Dist(u[1], v[1]) + Dist(u[2], v[2]) + Dist(u[3], v[3])

\* C27: row 0 of the gradient buffer is color1; every channel of every row
\* lies between its values in color1 and color2 and within 0..255, and moves
\* monotonically from color1 toward color2 as the row index grows; the top
\* row is no further from color1, and the bottom row no further from color2,
\* than the other.
C27_GradientInterpolates ==
  (tab = "gradient" /\ g_rows # <<>>) =>
    LET c1 == ParseHex(g_colors[1])
        c2 == ParseHex(g_colors[2])
        H  == g_height
    IN  /\ g_rows[1] = c1
        /\ \A i \in 1..H : \A k \in 1..3 :
              /\ g_rows[i][k] \in 0..255
              /\ Min(c1[k], c2[k]) <= g_rows[i][k]
              /\ g_rows[i][k] <= Max(c1[k], c2[k])
        /\ \A i \in 1..H : \A j \in i..H : \A k \in 1..3 :
              /\ c1[k] <= c2[k] => g_rows[i][k] <= g_rows[j][k]
              /\ c1[k] >= c2[k] => g_rows[i][k] >= g_rows[j][k]
        /\ ColourDist(g_rows[1], c1) <= ColourDist(g_rows[H], c1)
        /\ ColourDist(g_rows[H], c2) <= ColourDist(g_rows[1], c2)

\* C28: an operation of the text-effects editor that is rejected or has
\* nothing to do (add with blank text or without a base, remove-last on an
\* empty list, undo on an empty stack) leaves the preview raster as it was.
C28_RejectedKeepsPreview ==
  [][ tab = "effects" =>
        /\ (AddText /\ trail' = Logged("add_rejected")) => preview' = preview
        /\ (RemoveLast /\ layers_state = <<>>) => preview' = preview
        /\ (Undo /\ history = <<>>) => preview' = preview ]_vars

\* C29: the user's monthly_generations never exceeds the limit of the user's
\* plan (free 5, starter 25, popular 60, premium 200, any other plan 5),
\* however the calls of increment_usage for that user interleave.
C29_UsageWithinLimit ==
  tab = "usage" => users.monthly_generations <= PlanLimit(users.plan)

\* C30: a call of generate_image_with_auth that has returned without an
\* image (not logged in, limit reached, generation not available, remote
\* call failed) has not incremented the user's counters.
C30_CreditOnlyForImage ==
  tab = "usage" =>
    \A c \in Callers :
      (calls[c].pc = "done" /\ ~calls[c].image) => ~calls[c].charged

====
